---- MODULE Spec2Model ----
(***************************************************************************)
(* A model of the user-account backend: the generic repository over the    *)
(* users collection, UsersService (hashing, verification), the login flow  *)
(* (LocalStrategy, AuthController, AuthService) and the session strategy   *)
(* (JwtStrategy behind the auth guard).  Requests are asynchronous tasks   *)
(* that interleave at their await points; every store operation is atomic. *)
(***************************************************************************)
EXTENDS Integers, Sequences, FiniteSets, TLC

\* ------------------------------------------------------------------ bounds
MaxIds == 2
MaxTime == 2

\* ----------------------------------------------------------- input domains
Reqs == {"r1", "r2"}
Emails == {"a@x", "b@x"}
Passwords == {"", "pw1", "pw2"}
Salts == {"s1"}
Lifetimes == {<<1>>, <<2>>}

Ids == 1..MaxIds
SecondsPerMinute == 60

\* ------------------------------------------------------------------ values
\* A value of the password field: the text, and whether it is a bcrypt hash
\* of that text (with its salt) or the text itself.
Plain(p) == [hashed |-> FALSE, salt |-> "", text |-> p]
Hash(p, s) == [hashed |-> TRUE, salt |-> s, text |-> p]
NoPw == [hashed |-> FALSE, salt |-> "", text |-> "<none>"]

NoDoc == [_id |-> 0, email |-> "", password |-> NoPw]
Doc(i, e, pw) == [_id |-> i, email |-> e, password |-> pw]

NoErr == [name |-> "", message |-> "", status |-> 0]
NotFoundException == [name |-> "NotFoundException", message |-> "Document not found", status |-> 404]
CredentialsInvalid == [name |-> "UnauthorizedException", message |-> "Credentials are not valid", status |-> 401]
MissingCredentials == [name |-> "UnauthorizedException", message |-> "Unauthorized", status |-> 401]
DuplicateKeyError == [name |-> "MongoServerError", message |-> "E11000 duplicate key error", status |-> 500]
StoreFailure == [name |-> "MongoNetworkError", message |-> "connection closed", status |-> 500]

\* bcrypt.hash(password, 10): a salted hash; the salt is drawn at random.
hashPasswordBug(p, s) == Plain(p)
hashPassword(p, s) == Hash(p, s)

\* bcrypt.compare(password, stored): true exactly for a hash of that text.
bcryptCompareAny(p, stored) == TRUE
bcryptCompare(p, stored) == stored.hashed /\ stored.text = p

\* JavaScript truthiness of a string: the empty string is falsy.
Truthy(p) == p # ""

\* A field a partial update input does not carry.
Absent == "<absent>"
PatchEmails == Emails \cup {Absent}
PatchPasswords == Passwords \cup {Absent}

\* --------------------------------------------------------- session tokens
JWT_SECRET == "jwt-secret"

\* ObjectId.toHexString(): the identifier as hex digits.
ToHexString(i) == <<i \div 16, i % 16>>

NoPayload == [_id |-> <<>>, email |-> "", iat |-> 0, exp |-> 0]
NoSig == [key |-> "", over |-> NoPayload]
NoToken == [payload |-> NoPayload, sig |-> NoSig]
NoCookie == [value |-> NoToken, httpOnly |-> FALSE, expires |-> 0]

\* The signature of a payload under a key (an ideal MAC).
Mac(key, payload) == [key |-> key, over |-> payload]

\* Decimal digits of a natural number, as String(n) writes them.
RECURSIVE ToDigits(_)
ToDigits(n) == IF n < 10 THEN <<n>> ELSE Append(ToDigits(n \div 10), n % 10)

\* Number(s) of a string of decimal digits.
RECURSIVE ToNumber(_)
ToNumber(ds) ==
  IF ds = <<>> THEN 0
  ELSE 10 * ToNumber(SubSeq(ds, 1, Len(ds) - 1)) + ds[Len(ds)]

\* JavaScript number + string: the number is written out and the two are
\* concatenated.
JsPlusString(n, str) == ToDigits(n) \o str

\* expires = new Date(); expires.setSeconds(expires.getSeconds() + JWT_EXPIRATION)
\* with JWT_EXPIRATION as the configuration holds it: a string.
CookieExpires(t, lifetime) ==
  LET seconds == t % SecondsPerMinute IN
  (t - seconds) + ToNumber(JsPlusString(seconds, lifetime))

\* jwtService.signAsync(tokenPayload) under the JwtModule options:
\* expiresIn is Number(JWT_EXPIRATION); the library stamps iat and exp.
TokenPayload(user) == [_id |-> ToHexString(user._id), email |-> user.email]

SignAsync(tp, t, lifetime) ==
  LET payload == [_id |-> tp._id, email |-> tp.email, iat |-> t, exp |-> t + ToNumber(lifetime)] IN
  [payload |-> payload, sig |-> Mac(JWT_SECRET, payload)]

\* ------------------------------------------------------------------- state
VARIABLES
  store,          \* the users collection: a set of documents [_id, email, password]
  nextId,         \* the next identifier new Types.ObjectId() produces
  reqs,           \* the requests in flight: slot -> task record
  now,            \* the clock, in seconds
  jwtExpiration,  \* the environment's JWT_EXPIRATION: a string of digits
  boot            \* the startup: its position, the configured keys, the providers made

vars == <<store, nextId, reqs, now, jwtExpiration, boot>>

\* A request task.  kind/pc say which handler runs and where it is suspended;
\* the other fields are its inputs, its locals and its response: user is
\* the document returned (NoDoc for null), list the documents find returned,
\* cookie the Set-Cookie of a login response, sent the token a guarded
\* request carried, principal and ran what the guarded handler saw.
Idle == [kind |-> "idle", pc |-> "idle", email |-> "", password |-> "",
         id |-> 0, hashed |-> NoPw, user |-> NoDoc, err |-> NoErr, status |-> 0,
         list |-> <<>>, cookie |-> NoCookie, sent |-> NoToken, principal |-> NoPayload,
         ran |-> FALSE, via |-> "", on |-> "", from |-> "", seen |-> NoPayload,
         log |-> <<>>]

Free(r) == reqs[r].pc \in {"idle", "done"}

\* ------------------------------------------------------------ the store
\* The miss branch of findOne and findOneAndUpdate: logger.warn writes the
\* diagnostic to the log of the call, then NotFoundException is thrown.
DocumentNotFoundWarning == [level |-> "warn", message |-> "Document not found with filterQuery"]
MissUnlogged(log) == [log |-> log, err |-> NotFoundException]
Miss(log) == [log |-> Append(log, DocumentNotFoundWarning), err |-> NotFoundException]

\* The document find / findOne / findOneAndX meet first: the oldest match.
FirstMatch(S) == CHOOSE d \in S : \A o \in S : d._id <= o._id

ById(i) == {d \in store : d._id = i}
ByEmail(e) == {d \in store : d.email = e}

\* The unique index on users.email: whether writing email e into the
\* document with identifier i would collide with another document.
EmailTakenNoIndex(e, i) == FALSE
EmailTaken(e, i) == \E d \in store : d.email = e /\ d._id # i

\* ------------------------------------------------------ UsersService.create
\* The create tasks that will still draw an identifier (caps the counter).
CreatesInFlight == Cardinality({r \in Reqs : reqs[r].kind = "create" /\ reqs[r].pc = "hashed"})

\* create, up to its first await: the password has been hashed.
CreateHash(r, e, p, s) ==
  /\ Free(r)
  /\ nextId + CreatesInFlight <= MaxIds
  /\ reqs' = [reqs EXCEPT ![r] = [Idle EXCEPT !.kind = "create", !.pc = "hashed",
                                   !.email = e, !.hashed = hashPassword(p, s)]]
  /\ UNCHANGED <<store, nextId, now, jwtExpiration, boot>>

\* new this.model({ ...document, _id: new Types.ObjectId() }): the payload's
\* fields, its _id (if it carries one) overridden by the generated one.
NewDocumentKeepsId(document, oid) == IF document._id # 0 THEN document ELSE [document EXCEPT !._id = oid]
NewDocument(document, oid) == [document EXCEPT !._id = oid]

\* AbstractRepository.create: a fresh _id, then save() against the index.
\* A write the email index refuses is not applied: the collection S stays as
\* it is, the documents out stay and the documents in do not come.
RefusedButWritten(S, out, in) == (S \ out) \cup in
Refused(S, out, in) == S

\* UsersService awaits the repository without a try/catch: an error the store
\* raises is the error of the service call, as it is.
ConflictException == [name |-> "ConflictException", message |-> "Conflict", status |-> 409]
RethrownAsConflict(err) == ConflictException
Rethrown(err) == err

RepoCreate(r, document) ==
  /\ nextId' = nextId + 1
  /\ LET doc == NewDocument(document, nextId) IN
       IF EmailTaken(doc.email, doc._id)
       THEN /\ store' = Refused(store, {}, {doc})
            /\ reqs' = [reqs EXCEPT ![r] = [Idle EXCEPT !.kind = "create", !.pc = "done",
                                             !.email = doc.email, !.id = document._id,
                                             !.err = Rethrown(DuplicateKeyError),
                                             !.status = Rethrown(DuplicateKeyError).status]]
       ELSE /\ store' = store \cup {doc}
            /\ reqs' = [reqs EXCEPT ![r] = [Idle EXCEPT !.kind = "create", !.pc = "done",
                                             !.email = doc.email, !.id = document._id,
                                             !.user = doc, !.status = 200]]

\* create after the hash: the input with the hashed password goes to the
\* repository.  The response carries the user and nothing else.
CreateSaveAndLogin(r) ==
  /\ reqs[r].kind = "create" /\ reqs[r].pc = "hashed"
  /\ nextId' = nextId + 1
  /\ LET doc == Doc(nextId, reqs[r].email, reqs[r].hashed) IN
       /\ store' = store \cup {doc}
       /\ reqs' = [reqs EXCEPT ![r] =
                     [Idle EXCEPT !.kind = "create", !.pc = "done", !.email = doc.email,
                                  !.user = doc, !.status = 200,
                                  !.cookie = [value |-> SignAsync(TokenPayload(doc), now, jwtExpiration),
                                              httpOnly |-> TRUE,
                                              expires |-> CookieExpires(now, jwtExpiration)]]]
  /\ UNCHANGED <<now, jwtExpiration, boot>>
CreateSave(r) ==
  /\ reqs[r].kind = "create" /\ reqs[r].pc = "hashed"
  /\ RepoCreate(r, Doc(0, reqs[r].email, reqs[r].hashed))
  /\ UNCHANGED <<now, jwtExpiration, boot>>

\* AbstractRepository.create called with a document of the caller's making,
\* which may carry an _id of its own (0: none); the task keeps it in id.
Documents == {Doc(i, e, hashPassword("pw1", s)) : i \in 0..MaxIds, e \in Emails, s \in Salts}

CreateDocument(r, document) ==
  /\ Free(r)
  /\ nextId + CreatesInFlight <= MaxIds
  /\ RepoCreate(r, document)
  /\ UNCHANGED <<now, jwtExpiration, boot>>

\* ------------------------------------------------------ UsersService.update
\* The $set document update() hands to findOneAndUpdate: the fields the
\* input carries, the password as update() left it.
ApplySetOverwrites(d, pe, pw) ==
  [d EXCEPT !.email = IF pe = Absent THEN @ ELSE pe, !.password = pw]
ApplySet(d, pe, pw) ==
  [d EXCEPT !.email = IF pe = Absent THEN @ ELSE pe,
            !.password = IF pw = NoPw THEN @ ELSE pw]

\* { new: true }: the call returns the document as it is after the update.
ReturnedOriginal(old, new) == old
Returned(old, new) == new

\* AbstractRepository.findOneAndUpdate({_id}, {$set}) with {new: true}:
\* atomic in the store; a miss is logged and raised as NotFoundException,
\* a collision on the email index is raised by the store.
FindOneAndUpdate(r, i, pe, pw) ==
  IF ById(i) = {}
  THEN /\ store' = store
       /\ reqs' = [reqs EXCEPT ![r] = [Idle EXCEPT !.kind = "update", !.pc = "done",
                                        !.log = Miss(<<>>).log, !.err = Miss(<<>>).err,
                                        !.status = Miss(<<>>).err.status]]
  ELSE LET old == FirstMatch(ById(i))
           new == ApplySet(old, pe, pw) IN
       IF pe # Absent /\ EmailTaken(pe, i)
       THEN /\ store' = Refused(store, {old}, {new})
            /\ reqs' = [reqs EXCEPT ![r] = [Idle EXCEPT !.kind = "update", !.pc = "done",
                                             !.err = Rethrown(DuplicateKeyError),
                                             !.status = Rethrown(DuplicateKeyError).status]]
       ELSE /\ store' = (store \ {old}) \cup {new}
            /\ reqs' = [reqs EXCEPT ![r] = [Idle EXCEPT !.kind = "update", !.pc = "done",
                                             !.user = Returned(old, new), !.status = 200]]

\* update() with a truthy password, up to its await: the password is hashed.
UpdateHash(r, i, pe, pp, s) ==
  /\ Free(r)
  /\ pp # Absent /\ Truthy(pp)
  /\ reqs' = [reqs EXCEPT ![r] = [Idle EXCEPT !.kind = "update", !.pc = "hashed", !.id = i,
                                   !.email = pe, !.hashed = hashPassword(pp, s)]]
  /\ UNCHANGED <<store, nextId, now, jwtExpiration, boot>>

\* update() after the hash: findOneAndUpdate with the hashed password.
UpdateApply(r) ==
  /\ reqs[r].kind = "update" /\ reqs[r].pc = "hashed"
  /\ FindOneAndUpdate(r, reqs[r].id, reqs[r].email, reqs[r].hashed)
  /\ UNCHANGED <<nextId, now, jwtExpiration, boot>>

\* update() whose password is absent or falsy: the if is skipped and the
\* input goes to $set as it came (an empty-string password included).
UpdateDirect(r, i, pe, pp) ==
  /\ Free(r)
  /\ pp = Absent \/ ~Truthy(pp)
  /\ FindOneAndUpdate(r, i, pe, IF pp = Absent THEN NoPw ELSE Plain(pp))
  /\ UNCHANGED <<nextId, now, jwtExpiration, boot>>

\* ------------------------------------------------------ UsersService.remove
\* AbstractRepository.findOneAndDelete({_id}): the document, or null.
\* On the collection S with the matching documents M: the first match leaves
\* the collection and is returned as it was; no match returns null.
RepoFindOneKeeps(S, M) ==
  IF M = {} THEN [doc |-> NoDoc, left |-> S] ELSE [doc |-> FirstMatch(M), left |-> S]
RepoFindOneAndDelete(S, M) ==
  IF M = {} THEN [doc |-> NoDoc, left |-> S]
  ELSE [doc |-> FirstMatch(M), left |-> S \ {FirstMatch(M)}]

Remove(r, i) ==
  /\ Free(r)
  /\ LET res == RepoFindOneAndDelete(store, ById(i)) IN
       /\ store' = res.left
       /\ reqs' = [reqs EXCEPT ![r] = [Idle EXCEPT !.kind = "remove", !.pc = "done",
                                        !.user = res.doc, !.status = 200]]
  /\ UNCHANGED <<nextId, now, jwtExpiration, boot>>

\* --------------------------------------------------- UsersService.verifyUser
\* AbstractRepository.findOne(filter): the first match; a miss is logged and
\* raised as NotFoundException, never returned as null.
RepoFindOneOrNull(S) ==
  IF S = {} THEN [threw |-> FALSE, doc |-> NoDoc, err |-> NoErr, log |-> <<>>]
  ELSE [threw |-> FALSE, doc |-> FirstMatch(S), err |-> NoErr, log |-> <<>>]
RepoFindOne(S) ==
  IF S = {} THEN [threw |-> TRUE, doc |-> NoDoc, err |-> Miss(<<>>).err, log |-> Miss(<<>>).log]
  ELSE [threw |-> FALSE, doc |-> FirstMatch(S), err |-> NoErr, log |-> <<>>]

\* UsersService.findOne(_id): the repository's findOne({ _id }).
FindOne(r, i) ==
  /\ Free(r)
  /\ LET res == RepoFindOne(ById(i)) IN
       reqs' = [reqs EXCEPT ![r] =
                  IF res.threw
                  THEN [Idle EXCEPT !.kind = "findOne", !.pc = "done", !.log = res.log,
                                    !.err = res.err, !.status = res.err.status]
                  ELSE [Idle EXCEPT !.kind = "findOne", !.pc = "done",
                                    !.user = res.doc, !.status = 200]]
  /\ UNCHANGED <<store, nextId, now, jwtExpiration, boot>>

\* A filter document of find: on the email, or empty (Absent).
Filters == {[email |-> e] : e \in PatchEmails}
EmptyFilter == [email |-> Absent]
Matching(filter) == {d \in store : filter.email = Absent \/ d.email = filter.email}

\* The documents of a set in the order the collection returns them.
RECURSIVE InOrder(_)
InOrder(S) ==
  IF S = {} THEN <<>>
  ELSE LET d == FirstMatch(S) IN <<d>> \o InOrder(S \ {d})

\* AbstractRepository.find(filter): the matching documents as a list; an
\* empty result is an empty list, not an error.
RepoFindStrict(S) ==
  IF S = {} THEN [threw |-> TRUE, list |-> <<>>, err |-> NotFoundException]
  ELSE [threw |-> FALSE, list |-> InOrder(S), err |-> NoErr]
RepoFind(S) == [threw |-> FALSE, list |-> InOrder(S), err |-> NoErr]

Find(r, filter) ==
  /\ Free(r)
  /\ LET res == RepoFind(Matching(filter)) IN
       reqs' = [reqs EXCEPT ![r] =
                  IF res.threw
                  THEN [Idle EXCEPT !.kind = "find", !.pc = "done", !.email = filter.email,
                                    !.err = res.err, !.status = res.err.status]
                  ELSE [Idle EXCEPT !.kind = "find", !.pc = "done", !.email = filter.email,
                                    !.list = res.list, !.status = 200]]
  /\ UNCHANGED <<store, nextId, now, jwtExpiration, boot>>

\* UsersService.findAll(): find({}).
FindAll(r) == Find(r, EmptyFilter)

\* ------------------------------------------------------ the schema-query API
\* The User object type: the fields declared with @Field, _id and email.
\* The password is a stored property only.  UserType(NoDoc) stands for null.
UserTypeWithPassword(d) == d
UserType(d) == [_id |-> d._id, email |-> d.email]

\* removeUser is declared User!: a null result is answered with an error.
NullForNonNullable ==
  [name |-> "GraphQLError", message |-> "Cannot return null for non-nullable field", status |-> 200]

\* What the client of users / user / createUser / updateUser / removeUser
\* receives for a finished request.
Response(t) ==
  [status |-> t.status,
   error |-> IF t.kind = "remove" /\ t.user = NoDoc THEN NullForNonNullable ELSE t.err,
   data |-> UserType(t.user),
   list |-> [k \in 1..Len(t.list) |-> UserType(t.list[k])]]

\* How a failure of verifyUser leaves the task.  Called directly (kind
\* "verify") the error reaches the caller as thrown.  Under POST /auth/login
\* (kind "login") LocalStrategy.validate catches it and throws
\* new UnauthorizedException(err): status 401, the caught error as the body.
ValidateCatchKeepsStatus(k, err) == err.status
ValidateCatchPassesStoreFailure(k, err) ==
  IF k = "login" /\ err # StoreFailure THEN 401 ELSE err.status
ValidateCatch(k, err) == IF k = "login" THEN 401 ELSE err.status

Failed(k, e, p, err) ==
  [Idle EXCEPT !.kind = k, !.pc = "done", !.email = e, !.password = p,
               !.err = err, !.status = ValidateCatch(k, err)]

\* verifyUser(email, password) run from start to end on the collection S:
\* the lookup, then the comparison.
verifyUser(S, e, p) ==
  LET res == RepoFindOne({d \in S : d.email = e}) IN
  IF res.threw THEN [ok |-> FALSE, user |-> NoDoc, err |-> res.err]
  ELSE IF res.doc = NoDoc THEN [ok |-> FALSE, user |-> NoDoc, err |-> CredentialsInvalid]
  ELSE IF ~bcryptCompare(p, res.doc.password)
       THEN [ok |-> FALSE, user |-> NoDoc, err |-> CredentialsInvalid]
       ELSE [ok |-> TRUE, user |-> res.doc, err |-> NoErr]

\* The local strategy calls validate only for a body with a non-empty email
\* and a non-empty password; the guard answers any other body with 401.
Supplied(e, p) == Truthy(e) /\ Truthy(p)

\* verifyUser up to its second await: the lookup by email.
VerifyFind(r, k, e, p) ==
  /\ Free(r)
  /\ LET res == RepoFindOne(ByEmail(e)) IN
       reqs' = [reqs EXCEPT ![r] =
                  IF k = "login" /\ ~Supplied(e, p)
                  THEN [Idle EXCEPT !.kind = k, !.pc = "done", !.email = e, !.password = p,
                                    !.err = MissingCredentials, !.status = 401]
                  ELSE IF res.threw THEN [Failed(k, e, p, res.err) EXCEPT !.log = res.log]
                  ELSE IF res.doc = NoDoc THEN Failed(k, e, p, CredentialsInvalid)
                  ELSE [Idle EXCEPT !.kind = k, !.pc = "found", !.email = e,
                                    !.password = p, !.user = res.doc]]
  /\ UNCHANGED <<store, nextId, now, jwtExpiration, boot>>

\* verifyUser whose lookup the store fails (the connection is lost): the
\* driver's error leaves findOne and verifyUser as it is.
VerifyStoreFails(r, k, e, p) ==
  /\ Free(r)
  /\ k = "login" => Supplied(e, p)
  /\ reqs' = [reqs EXCEPT ![r] = Failed(k, e, p, StoreFailure)]
  /\ UNCHANGED <<store, nextId, now, jwtExpiration, boot>>

\* verifyUser after bcrypt.compare on the document it read.
VerifyCompare(r) ==
  /\ reqs[r].kind \in {"verify", "login"} /\ reqs[r].pc = "found"
  /\ reqs' = [reqs EXCEPT ![r] =
                IF ~bcryptCompare(reqs[r].password, reqs[r].user.password)
                THEN Failed(reqs[r].kind, reqs[r].email, reqs[r].password, CredentialsInvalid)
                ELSE IF reqs[r].kind = "login"
                     THEN [@ EXCEPT !.pc = "verified"]
                     ELSE [@ EXCEPT !.pc = "done", !.status = 200]]
  /\ UNCHANGED <<store, nextId, now, jwtExpiration, boot>>

\* ------------------------------------------------------- AuthService.login
\* AuthController.login behind LocalAuthGuard: runs with the verified user,
\* signs the token and sets the Authentication cookie.
LoginIssueRereads(r) ==
  /\ reqs[r].kind = "login" /\ reqs[r].pc = "verified"
  /\ LET stored == IF ById(reqs[r].user._id) = {} THEN reqs[r].user
                   ELSE FirstMatch(ById(reqs[r].user._id))
         token == SignAsync(TokenPayload(stored), now, jwtExpiration) IN
       reqs' = [reqs EXCEPT ![r].pc = "done", ![r].status = 201,
                            ![r].cookie = [value |-> token, httpOnly |-> TRUE,
                                           expires |-> CookieExpires(now, jwtExpiration)]]
  /\ UNCHANGED <<store, nextId, now, jwtExpiration, boot>>
LoginIssue(r) ==
  /\ reqs[r].kind = "login" /\ reqs[r].pc = "verified"
  /\ LET token == SignAsync(TokenPayload(reqs[r].user), now, jwtExpiration) IN
       reqs' = [reqs EXCEPT ![r].pc = "done", ![r].status = 201,
                            ![r].cookie = [value |-> token, httpOnly |-> TRUE,
                                           expires |-> CookieExpires(now, jwtExpiration)]]
  /\ UNCHANGED <<store, nextId, now, jwtExpiration, boot>>

\* ------------------------------------------------------------- JwtStrategy
\* passport-jwt's verification of the extracted token: present, signed with
\* the server's secret over this payload, and not yet expired.
JwtVerifyNoExpiry(token, t) ==
  /\ token # NoToken
  /\ token.sig = Mac(JWT_SECRET, token.payload)
JwtVerify(token, t) ==
  /\ token # NoToken
  /\ token.sig = Mac(JWT_SECRET, token.payload)
  /\ t < token.payload.exp

\* JwtStrategy.validate: the decoded payload is the principal; the store is
\* not consulted.
JwtValidateStored(payload) ==
  IF \E d \in store : ToHexString(d._id) = payload._id /\ d.email = payload.email
  THEN payload ELSE NoPayload
JwtValidate(payload) == payload

\* What the client of a slot puts in the Authentication cookie: nothing, the
\* token its login returned, or that token altered.
Presentations == {"none", "asis", "badsig", "later", "other"}

Presented(token, how) ==
  IF token = NoToken \/ how = "none" THEN NoToken
  ELSE IF how = "badsig" THEN [token EXCEPT !.sig.key = "forged"]
  ELSE IF how = "later" THEN [token EXCEPT !.payload.exp = @ + 1]
  ELSE IF how = "other" THEN [token EXCEPT !.payload._id = ToHexString(0)]
  ELSE token

\* ------------------------------------------------- the execution context
\* The objects of one request: the express request, and what stands at the
\* other argument positions.  A handler of a controller is called with
\* (req, res, next), a resolver with (root, args, context, info); the root of
\* a query or mutation is undefined, and the context carries the request.
ExpressRequest == "req"
Undefined == "undefined"
Transports == {"http", "graphql"}

HttpArguments == <<ExpressRequest, "res", "next">>
GqlArguments == <<Undefined, "args", "ctx", "info">>

ExecutionContext(via) ==
  [type |-> via, args |-> IF via = "http" THEN HttpArguments ELSE GqlArguments]

TypeError ==
  [name |-> "TypeError", message |-> "Cannot read properties of undefined", status |-> 500]
InvalidContextType == [name |-> "Error", message |-> "Invalid context type", status |-> 500]

\* context.switchToHttp().getRequest(): the first argument.
SwitchToHttpGetRequest(context) == context.args[1]

\* GqlExecutionContext.create(context).getContext(): the third argument, the
\* object that holds the express request under req.
GqlGetContext(context) ==
  IF Len(context.args) >= 3 /\ context.args[3] = "ctx"
  THEN [req |-> ExpressRequest]
  ELSE [req |-> Undefined]

\* The request object the jwt guard authenticates: GqlAuthGuard overrides
\* getRequest for resolvers, AuthGuard('jwt') takes the http request.
GqlAuthGuardGetRequest(context) == GqlGetContext(context).req

GuardGetRequest(context) ==
  IF context.type = "graphql" THEN GqlAuthGuardGetRequest(context)
  ELSE SwitchToHttpGetRequest(context)

\* passport sets request.user on the object the guard authenticated.
Attach(request, principal) ==
  [o \in {ExpressRequest, "res", "next", "args", "ctx", "info"} |->
     IF o = request THEN principal ELSE NoPayload]

\* object.user, as the handler's parameter decorator reads it.
ReadUser(object, users) ==
  IF object = Undefined
  THEN [threw |-> TRUE, from |-> object, user |-> NoPayload, err |-> TypeError]
  ELSE [threw |-> FALSE, from |-> object, user |-> users[object], err |-> NoErr]

\* getCurrentUserByContext: the user of the request of the context, by the
\* type of the context.
getCurrentUserByContextHttpOnly(context, users) ==
  ReadUser(SwitchToHttpGetRequest(context), users)
getCurrentUserByContext(context, users) ==
  IF context.type = "http" THEN ReadUser(SwitchToHttpGetRequest(context), users)
  ELSE IF context.type = "graphql" THEN ReadUser(GqlGetContext(context).req, users)
  ELSE [threw |-> TRUE, from |-> Undefined, user |-> NoPayload, err |-> InvalidContextType]

\* A request over transport via to a handler behind the jwt guard that takes
\* @CurrentUser(): the guard reads the cookie of the request object it
\* resolves and attaches the principal to it; the handler runs, with the
\* user its decorator resolves, only if the guard accepts.
Guarded(r, how, via) ==
  /\ Free(r)
  /\ LET context == ExecutionContext(via)
         request == GuardGetRequest(context)
         sent == Presented(reqs[r].cookie.value, how)
         asked == [Idle EXCEPT !.kind = "fetch", !.pc = "done", !.via = via,
                               !.on = request]
     IN reqs' = [reqs EXCEPT ![r] =
                  IF request # ExpressRequest
                  THEN [asked EXCEPT !.err = TypeError, !.status = 500]
                  ELSE IF JwtVerify(sent, now)
                  THEN LET principal == JwtValidate(sent.payload)
                           cu == getCurrentUserByContext(context, Attach(request, principal))
                       IN IF cu.threw
                          THEN [asked EXCEPT !.sent = sent, !.principal = principal,
                                             !.from = cu.from, !.err = cu.err,
                                             !.status = cu.err.status]
                          ELSE [asked EXCEPT !.sent = sent, !.principal = principal,
                                             !.from = cu.from, !.seen = cu.user,
                                             !.status = 200, !.ran = TRUE]
                  ELSE [asked EXCEPT !.status = 401, !.sent = sent]]
  /\ UNCHANGED <<store, nextId, now, jwtExpiration, boot>>

\* A request to a handler of a controller behind the jwt guard.
Fetch(r, how) == Guarded(r, how, "http")

\* Time passes.
Tick ==
  /\ now < MaxTime
  /\ now' = now + 1
  /\ UNCHANGED <<store, nextId, reqs, jwtExpiration, boot>>

\* ------------------------------------------------------------------ startup
\* The environment keys the application reads, and the providers whose
\* construction reads them.
Keys == {"MONGODB_URI", "DB_NAME", "JWT_SECRET", "JWT_EXPIRATION", "PORT"}
Providers == {"DbMigrationService", "JwtModule", "JwtStrategy"}

\* The server as it runs once bootstrap has returned.
Serving == [pc |-> "listening", env |-> Keys, made |-> Providers, missing |-> ""]
Listening == boot.pc = "listening"

\* configService.getOrThrow(key): throws when the key is not configured.
getOrUndefined(env, key) == [threw |-> FALSE, key |-> key]
getOrThrow(env, key) == [threw |-> key \notin env, key |-> key]

StartupFails(key) == boot' = [boot EXCEPT !.pc = "failed", !.missing = key]

\* ConfigModule.forRoot with validationSchema: MONGODB_URI is required.
LoadConfig ==
  /\ boot.pc = "start"
  /\ IF "MONGODB_URI" \notin boot.env
     THEN StartupFails("MONGODB_URI")
     ELSE boot' = [boot EXCEPT !.pc = "loaded"]
  /\ UNCHANGED <<store, nextId, reqs, now, jwtExpiration>>

\* NestFactory.create instantiates provider p, whose construction reads the
\* keys of the sequence keys in turn.
Instantiate(p, keys) ==
  /\ boot.pc = "loaded"
  /\ p \notin boot.made
  /\ LET thrown == {k \in 1..Len(keys) : getOrThrow(boot.env, keys[k]).threw} IN
       IF thrown # {}
       THEN StartupFails(keys[CHOOSE k \in thrown : \A j \in thrown : k <= j])
       ELSE boot' = [boot EXCEPT !.made = @ \cup {p}]
  /\ UNCHANGED <<store, nextId, reqs, now, jwtExpiration>>

MakeDbMigrationService == Instantiate("DbMigrationService", <<"DB_NAME", "MONGODB_URI">>)
MakeJwtModule == Instantiate("JwtModule", <<"JWT_SECRET", "JWT_EXPIRATION">>)
MakeJwtStrategy == Instantiate("JwtStrategy", <<"JWT_SECRET">>)

\* bootstrap, once NestFactory.create has returned:
\* app.listen(configService.getOrThrow('PORT')).
Listen ==
  /\ boot.pc = "loaded"
  /\ boot.made = Providers
  /\ IF getOrThrow(boot.env, "PORT").threw
     THEN StartupFails("PORT")
     ELSE boot' = [boot EXCEPT !.pc = "listening"]
  /\ UNCHANGED <<store, nextId, reqs, now, jwtExpiration>>

\* ----------------------------------------------------------- specifications
Init ==
  /\ store = {}
  /\ nextId = 1
  /\ reqs = [r \in Reqs |-> Idle]
  /\ now = 0
  /\ jwtExpiration = <<1>>
  /\ boot = Serving

\* The mutations of the users API, two requests at a time, interleaved at
\* their await points.
Next ==
  \/ \E r \in Reqs, e \in Emails, p \in Passwords, s \in Salts : CreateHash(r, e, p, s)
  \/ \E r \in Reqs : CreateSave(r)
  \/ \E r \in Reqs, i \in Ids, pe \in PatchEmails, pp \in PatchPasswords, s \in Salts :
       UpdateHash(r, i, pe, pp, s)
  \/ \E r \in Reqs : UpdateApply(r)
  \/ \E r \in Reqs, i \in Ids, pe \in PatchEmails, pp \in PatchPasswords : UpdateDirect(r, i, pe, pp)
  \/ \E r \in Reqs, i \in Ids : Remove(r, i)

Spec == Init /\ [][Next]_vars

\* Two callers probe verifyUser, directly or through POST /auth/login,
\* while users are created and removed.
ProbeNext ==
  \/ \E e \in Emails, p \in Passwords, s \in Salts : CreateHash("r1", e, p, s)
  \/ CreateSave("r1")
  \/ \E i \in Ids : Remove("r1", i)
  \/ \E r \in Reqs, k \in {"verify", "login"}, e \in Emails, p \in Passwords : VerifyFind(r, k, e, p)
  \/ \E r \in Reqs : VerifyCompare(r)
  \/ \E r \in Reqs : LoginIssue(r)

ProbeSpec == Init /\ [][ProbeNext]_vars

\* The users API read while it is written: one client (slot r1) queries and
\* removes, another (slot r2) creates, updates and removes.
QueryNext ==
  \/ \E e \in Emails, p \in Passwords, s \in Salts : CreateHash("r2", e, p, s)
  \/ CreateSave("r2")
  \/ \E i \in Ids, pe \in PatchEmails, pp \in PatchPasswords, s \in Salts :
       UpdateHash("r2", i, pe, pp, s)
  \/ UpdateApply("r2")
  \/ \E i \in Ids, pe \in PatchEmails, pp \in PatchPasswords : UpdateDirect("r2", i, pe, pp)
  \/ \E r \in Reqs, i \in Ids : Remove(r, i)
  \/ \E i \in Ids : FindOne("r1", i)
  \/ \E f \in Filters : Find("r1", f)
  \/ FindAll("r1")

QuerySpec == Init /\ [][QueryNext]_vars

\* verifyUser called (slot r1) while users are created, updated and removed
\* (slot r2).
VerifyNext ==
  \/ \E e \in Emails, p \in Passwords, s \in Salts : CreateHash("r2", e, p, s)
  \/ CreateSave("r2")
  \/ \E i \in Ids, pe \in PatchEmails, pp \in PatchPasswords, s \in Salts :
       UpdateHash("r2", i, pe, pp, s)
  \/ UpdateApply("r2")
  \/ \E i \in Ids, pe \in PatchEmails, pp \in PatchPasswords : UpdateDirect("r2", i, pe, pp)
  \/ \E i \in Ids : Remove("r2", i)
  \/ \E e \in Emails, p \in Passwords : VerifyFind("r1", "verify", e, p)
  \/ VerifyCompare("r1")

VerifySpec == Init /\ [][VerifyNext]_vars

\* The repository's create called directly, with and without an _id in the
\* payload, next to createUser and removeUser requests.
RepoNext ==
  \/ \E r \in Reqs, document \in Documents : CreateDocument(r, document)
  \/ \E e \in Emails, p \in Passwords, s \in Salts : CreateHash("r2", e, p, s)
  \/ CreateSave("r2")
  \/ \E r \in Reqs, i \in Ids : Remove(r, i)

RepoSpec == Init /\ [][RepoNext]_vars

\* Two createUser requests, each issued once, racing on an empty collection.
RaceNext ==
  \/ \E r \in Reqs, e \in Emails, p \in Passwords, s \in Salts :
       reqs[r].kind = "idle" /\ CreateHash(r, e, p, s)
  \/ \E r \in Reqs : CreateSave(r)

RaceSpec == Init /\ [][RaceNext]_vars

\* The session flow: a client (slot r1) logs in and calls guarded handlers
\* while users are created and removed (slot r2) and time passes.
AuthInit ==
  /\ store = {}
  /\ nextId = 1
  /\ reqs = [r \in Reqs |-> Idle]
  /\ now = 0
  /\ jwtExpiration \in Lifetimes
  /\ boot = Serving

AuthNext ==
  \/ \E e \in Emails, p \in Passwords, s \in Salts : CreateHash("r2", e, p, s)
  \/ CreateSave("r2")
  \/ \E i \in Ids : Remove("r2", i)
  \/ \E e \in Emails, p \in Passwords : VerifyFind("r1", "login", e, p)
  \/ VerifyCompare("r1")
  \/ LoginIssue("r1")
  \/ \E how \in Presentations : Fetch("r1", how)
  \/ Tick

AuthSpec == AuthInit /\ [][AuthNext]_vars

\* The startup under every set of configured keys, and the users API once
\* the server listens.
BootInit ==
  /\ store = {}
  /\ nextId = 1
  /\ reqs = [r \in Reqs |-> Idle]
  /\ now = 0
  /\ jwtExpiration = <<1>>
  /\ boot \in {[pc |-> "start", env |-> E, made |-> {}, missing |-> ""] : E \in SUBSET Keys}

BootNext ==
  \/ LoadConfig
  \/ MakeDbMigrationService
  \/ MakeJwtModule
  \/ MakeJwtStrategy
  \/ Listen
  \/ Listening /\ \E e \in Emails, p \in Passwords, s \in Salts : CreateHash("r1", e, p, s)
  \/ Listening /\ CreateSave("r1")
  \/ Listening /\ \E e \in Emails, p \in Passwords : VerifyFind("r2", "login", e, p)
  \/ Listening /\ VerifyCompare("r2")
  \/ Listening /\ LoginIssue("r2")

BootSpec == BootInit /\ [][BootNext]_vars

\* The session flow with guarded handlers on both transports.
ContextNext ==
  \/ \E e \in Emails, p \in Passwords, s \in Salts : CreateHash("r2", e, p, s)
  \/ CreateSave("r2")
  \/ \E i \in Ids : Remove("r2", i)
  \/ \E e \in Emails, p \in Passwords : VerifyFind("r1", "login", e, p)
  \/ VerifyCompare("r1")
  \/ LoginIssue("r1")
  \/ \E how \in Presentations, via \in Transports : Guarded("r1", how, via)
  \/ Tick

ContextSpec == AuthInit /\ [][ContextNext]_vars

\* Requests that can fail in every way, side by side: one client (slot r1)
\* reads, verifies and logs in, another (slot r2) creates, updates and removes.
FailNext ==
  \/ \E e \in Emails, p \in Passwords, s \in Salts : CreateHash("r2", e, p, s)
  \/ CreateSave("r2")
  \/ \E i \in Ids, pe \in PatchEmails, pp \in PatchPasswords, s \in Salts :
       UpdateHash("r2", i, pe, pp, s)
  \/ UpdateApply("r2")
  \/ \E i \in Ids, pe \in PatchEmails, pp \in PatchPasswords : UpdateDirect("r2", i, pe, pp)
  \/ \E i \in Ids : Remove("r2", i)
  \/ \E i \in Ids : FindOne("r1", i)
  \/ \E k \in {"verify", "login"}, e \in Emails, p \in Passwords : VerifyFind("r1", k, e, p)
  \/ VerifyCompare("r1")
  \/ LoginIssue("r1")

FailSpec == Init /\ [][FailNext]_vars

\* Logins and direct verifyUser calls over a store that can fail, while users
\* are created and removed.
LoginNext ==
  \/ \E e \in Emails, p \in Passwords, s \in Salts : CreateHash("r2", e, p, s)
  \/ CreateSave("r2")
  \/ \E i \in Ids : Remove("r2", i)
  \/ \E k \in {"verify", "login"}, e \in Emails, p \in Passwords : VerifyFind("r1", k, e, p)
  \/ \E k \in {"verify", "login"}, e \in Emails, p \in Passwords :
       VerifyStoreFails("r1", k, e, p)
  \/ VerifyCompare("r1")
  \/ LoginIssue("r1")

LoginSpec == Init /\ [][LoginNext]_vars

\* One client (slot r1) removes users, looks them up and logs in, while
\* another (slot r2) creates, updates and removes users.
RemovedNext ==
  \/ \E e \in Emails, p \in Passwords, s \in Salts : CreateHash("r2", e, p, s)
  \/ CreateSave("r2")
  \/ \E i \in Ids, pe \in PatchEmails, pp \in PatchPasswords, s \in Salts :
       UpdateHash("r2", i, pe, pp, s)
  \/ UpdateApply("r2")
  \/ \E i \in Ids, pe \in PatchEmails, pp \in PatchPasswords : UpdateDirect("r2", i, pe, pp)
  \/ \E r \in Reqs, i \in Ids : Remove(r, i)
  \/ \E i \in Ids : FindOne("r1", i)
  \/ \E e \in Emails, p \in Passwords : VerifyFind("r1", "login", e, p)
  \/ VerifyCompare("r1")
  \/ LoginIssue("r1")

RemovedSpec == Init /\ [][RemovedNext]_vars

\* The session flow while the users are created, changed and removed.
SessionNext ==
  \/ \E e \in Emails, p \in Passwords, s \in Salts : CreateHash("r2", e, p, s)
  \/ CreateSave("r2")
  \/ \E i \in Ids, pe \in PatchEmails, pp \in PatchPasswords, s \in Salts :
       UpdateHash("r2", i, pe, pp, s)
  \/ UpdateApply("r2")
  \/ \E i \in Ids, pe \in PatchEmails, pp \in PatchPasswords : UpdateDirect("r2", i, pe, pp)
  \/ \E i \in Ids : Remove("r2", i)
  \/ \E e \in Emails, p \in Passwords : VerifyFind("r1", "login", e, p)
  \/ VerifyCompare("r1")
  \/ LoginIssue("r1")
  \/ \E how \in Presentations : Fetch("r1", how)
  \/ Tick

SessionSpec == AuthInit /\ [][SessionNext]_vars

\* A login task, once started, is run to its end by the event loop.
AuthFairSpec ==
  /\ AuthSpec
  /\ WF_vars(VerifyCompare("r1"))
  /\ WF_vars(LoginIssue("r1"))

\* ------------------------------------------------------------------ claims
Done(r, k) == reqs[r].kind = k /\ reqs[r].pc = "done"

\* C1: after any sequence of create and update calls, whatever password
\* string an input carries, every stored user's password field is a hash
\* output and never the submitted plaintext.
C1_StoredPasswordsAreHashes == \A d \in store : d.password.hashed

\* C2: verifyUser with an email no user has and verifyUser with a known email
\* and a wrong password fail with the same error kind and message: any two
\* failed verifyUser calls carry the same error.
FailedVerify(r) == Done(r, "verify") /\ reqs[r].err # NoErr

C2_VerifyFailuresAlike ==
  \A q1, q2 \in Reqs :
    FailedVerify(q1) /\ FailedVerify(q2)
      => /\ reqs[q1].err.name = reqs[q2].err.name
         /\ reqs[q1].err.message = reqs[q2].err.message

\* C3: POST /auth/login answers an unknown email and a known email with a
\* wrong password identically, in status and in error detail: any two
\* logins that supplied both fields and were rejected carry the same response.
RejectedLogin(r) ==
  Done(r, "login") /\ reqs[r].status # 201 /\ Supplied(reqs[r].email, reqs[r].password)

C3_LoginRejectionsAlike ==
  \A q1, q2 \in Reqs :
    RejectedLogin(q1) /\ RejectedLogin(q2)
      => /\ reqs[q1].status = reqs[q2].status
         /\ reqs[q1].err = reqs[q2].err

\* C4: of two concurrent createUser requests with the same email, under
\* every interleaving of hash and save, exactly one succeeds and stores a
\* user; the other fails with the store's constraint violation and stores
\* nothing.
BothCreatesDone ==
  /\ Done("r1", "create") /\ Done("r2", "create")
  /\ reqs["r1"].email = reqs["r2"].email

C4_ExactlyOneCreateWins ==
  BothCreatesDone =>
    /\ \E w, l \in Reqs :
         /\ w # l
         /\ reqs[w].status = 200 /\ reqs[w].err = NoErr
         /\ reqs[w].user \in store
         /\ reqs[l].err = DuplicateKeyError /\ reqs[l].user = NoDoc
    /\ Cardinality(ByEmail(reqs["r1"].email)) = 1

C4_Witness == BothCreatesDone

\* C5: in every reachable state, after any interleaving of createUser,
\* updateUser (email changes included) and removeUser, no two stored users
\* share an email.
C5_EmailsUnique == \A d1, d2 \in store : d1.email = d2.email => d1 = d2

\* An update that would have taken another user's email was turned down
\* while both users are stored.
C5_Witness ==
  /\ Cardinality(store) = 2
  /\ \E r \in Reqs : Done(r, "update") /\ reqs[r].err = DuplicateKeyError

\* C6: a login sets the Authentication cookie only after verifyUser has
\* succeeded for the email and password of that same request; a login whose
\* verification failed ends rejected, with status 401 and no cookie.
VerifiedFor(t) ==
  /\ t.user # NoDoc
  /\ t.user.email = t.email
  /\ t.user.password.hashed /\ t.user.password.text = t.password

C6_CookieOnlyAfterVerify ==
  \A r \in Reqs : reqs[r].kind = "login" =>
    /\ reqs[r].pc = "verified" => VerifiedFor(reqs[r])
    /\ reqs[r].cookie # NoCookie =>
         reqs[r].pc = "done" /\ reqs[r].status = 201 /\ VerifiedFor(reqs[r])
    /\ reqs[r].pc = "done" /\ ~VerifiedFor(reqs[r]) =>
         reqs[r].status = 401 /\ reqs[r].cookie = NoCookie

C6_Witness ==
  /\ Done("r1", "login")
  /\ reqs["r1"].cookie # NoCookie
  /\ reqs["r1"].status = 201

\* C7: every login ends in exactly one of SessionIssued (cookie set) and
\* Rejected (unauthorized), never in a third outcome; a login in flight
\* eventually ends, and a verified login always reaches SessionIssued.
SessionIssued ==
  Done("r1", "login") /\ reqs["r1"].status = 201 /\ reqs["r1"].cookie # NoCookie
Rejected ==
  Done("r1", "login") /\ reqs["r1"].status = 401 /\ reqs["r1"].cookie = NoCookie
LoginInFlight == reqs["r1"].kind = "login" /\ reqs["r1"].pc \in {"found", "verified"}
LoginVerified == reqs["r1"].kind = "login" /\ reqs["r1"].pc = "verified"

C7_LoginEnds ==
  /\ [](Done("r1", "login") => (SessionIssued /\ ~Rejected) \/ (Rejected /\ ~SessionIssued))
  /\ (LoginInFlight ~> (SessionIssued \/ Rejected))
  /\ (LoginVerified ~> SessionIssued)

C7_Witness == SessionIssued /\ now > 0

\* C8: a guarded request whose Authentication cookie is missing, carries a
\* bad signature or carries an expired token is rejected, and the guarded
\* handler does not run for it.
BadToken(t, at) ==
  \/ t = NoToken
  \/ t.sig # Mac(JWT_SECRET, t.payload)
  \/ at >= t.payload.exp

C8_GuardRejects ==
  [][\A r \in Reqs :
       reqs'[r] # reqs[r] /\ reqs'[r].kind = "fetch" /\ BadToken(reqs'[r].sent, now)
         => /\ reqs'[r].status = 401
            /\ ~reqs'[r].ran
            /\ reqs'[r].principal = NoPayload]_vars

\* A token with a good signature was turned down: it had expired.
C8_Witness ==
  /\ Done("r1", "fetch")
  /\ reqs["r1"].status = 401 /\ ~reqs["r1"].ran
  /\ reqs["r1"].sent # NoToken
  /\ reqs["r1"].sent.sig = Mac(JWT_SECRET, reqs["r1"].sent.payload)

\* C9: the cookie a successful login of user u set, presented unaltered
\* before its expiry, is accepted, and the principal is the signed payload:
\* u's id and u's email.
C9_CookieAcceptedUntilExpiry ==
  [][\A r \in Reqs :
       /\ Done(r, "login") /\ reqs[r].cookie # NoCookie
       /\ reqs'[r].kind = "fetch"
       /\ reqs'[r].sent = reqs[r].cookie.value
       /\ now < reqs[r].cookie.expires
       => /\ reqs'[r].status = 200 /\ reqs'[r].ran
          /\ reqs'[r].principal._id = ToHexString(reqs[r].user._id)
          /\ reqs'[r].principal.email = reqs[r].user.email]_vars

\* C10: the cookie's expires is the login time plus JWT_EXPIRATION seconds,
\* and the same instant as the expiry encoded in the token.
C10_ExpiresIsLoginPlusLifetime ==
  \A r \in Reqs :
    Done(r, "login") /\ reqs[r].cookie # NoCookie =>
      /\ reqs[r].cookie.expires = reqs[r].cookie.value.payload.iat + ToNumber(jwtExpiration)
      /\ reqs[r].cookie.expires = reqs[r].cookie.value.payload.exp

C12_VerifyExactlyLastPassword ==
  [][\A r \in Reqs :
       reqs'[r] # reqs[r] /\ reqs'[r].kind = "verify" =>
         /\ reqs'[r].pc = "found" =>
              reqs'[r].user \in ByEmail(reqs'[r].email)
         /\ reqs[r].pc # "found" /\ reqs'[r].pc = "done" =>
              /\ ByEmail(reqs'[r].email) = {}
              /\ reqs'[r].err # NoErr /\ reqs'[r].user = NoDoc
         /\ reqs[r].pc = "found" /\ reqs'[r].pc = "done" =>
              IF reqs[r].user.password.text = reqs[r].password
              THEN reqs'[r].err = NoErr /\ reqs'[r].user = reqs[r].user
              ELSE reqs'[r].err # NoErr /\ reqs'[r].user = NoDoc]_vars

\* C13: creating a user issues no session: a createUser request never
\* carries an Authentication cookie (a signed token) in its response, and
\* whenever a response sets the cookie, it is the response of a login request
\* that had verified its user, and the token names that user.
C13_CreateIssuesNoSession ==
  [][\A r \in Reqs :
       /\ reqs'[r].kind = "create" => reqs'[r].cookie = NoCookie
       /\ reqs'[r].cookie # NoCookie /\ reqs'[r].cookie # reqs[r].cookie
            => /\ reqs[r].kind = "login" /\ reqs[r].pc = "verified"
               /\ reqs'[r].kind = "login"
               /\ reqs'[r].cookie.value.payload._id = ToHexString(reqs[r].user._id)
               /\ reqs'[r].cookie.value.payload.email = reqs[r].user.email]_vars

\* A user was created without a cookie, and a later login of that user set one.
C13_Witness ==
  /\ Done("r2", "create") /\ reqs["r2"].status = 200 /\ reqs["r2"].cookie = NoCookie
  /\ Done("r1", "login") /\ reqs["r1"].cookie # NoCookie
  /\ reqs["r1"].user = reqs["r2"].user

\* C14: no response of users, user, createUser, updateUser or removeUser
\* contains a stored password or password hash, and the response is the same
\* for any two stores that differ only in the users' password fields: every
\* response is a function of the request and of the stored identifiers and
\* emails alone.
Public(d) == [_id |-> d._id, email |-> d.email]
Blind == {Public(d) : d \in store}
NoData == Public(NoDoc)
Answer(status, error, data, list) ==
  [status |-> status, error |-> error, data |-> data, list |-> list]

RECURSIVE PublicInOrder(_)
PublicInOrder(S) ==
  IF S = {} THEN <<>>
  ELSE LET u == CHOOSE x \in S : \A y \in S : x._id <= y._id
       IN <<u>> \o PublicInOrder(S \ {u})

AnswerById(i, missing) ==
  IF \E u \in Blind : u._id = i
  THEN Answer(200, NoErr, CHOOSE u \in Blind : u._id = i, <<>>)
  ELSE missing

AnswerToUpdate(i, pe) ==
  IF ~\E u \in Blind : u._id = i THEN Answer(404, NotFoundException, NoData, <<>>)
  ELSE IF pe # Absent /\ \E u \in Blind : u.email = pe /\ u._id # i
       THEN Answer(500, DuplicateKeyError, NoData, <<>>)
       ELSE LET u == CHOOSE x \in Blind : x._id = i
            IN Answer(200, NoErr, [u EXCEPT !.email = IF pe = Absent THEN @ ELSE pe], <<>>)

C14_ResponsesCarryNoPassword ==
  [][\A r \in Reqs :
       reqs'[r] # reqs[r] /\ reqs'[r].pc = "done" =>
         /\ reqs'[r].kind = "findOne" =>
              \A i \in Ids : FindOne(r, i) =>
                Response(reqs'[r]) = AnswerById(i, Answer(404, NotFoundException, NoData, <<>>))
         /\ reqs'[r].kind = "find" =>
              \A f \in Filters : Find(r, f) =>
                Response(reqs'[r]) =
                  Answer(200, NoErr, NoData,
                         PublicInOrder({u \in Blind : f.email = Absent \/ u.email = f.email}))
         /\ reqs'[r].kind = "create" =>
              Response(reqs'[r]) =
                IF \E u \in Blind : u.email = reqs[r].email
                THEN Answer(500, DuplicateKeyError, NoData, <<>>)
                ELSE Answer(200, NoErr, [_id |-> nextId, email |-> reqs[r].email], <<>>)
         /\ reqs'[r].kind = "update" /\ reqs[r].pc = "hashed" =>
              Response(reqs'[r]) = AnswerToUpdate(reqs[r].id, reqs[r].email)
         /\ reqs'[r].kind = "update" /\ reqs[r].pc # "hashed" =>
              \A i \in Ids, pe \in PatchEmails, pp \in PatchPasswords :
                UpdateDirect(r, i, pe, pp) => Response(reqs'[r]) = AnswerToUpdate(i, pe)
         /\ reqs'[r].kind = "remove" =>
              \A i \in Ids : Remove(r, i) =>
                Response(reqs'[r]) = AnswerById(i, Answer(200, NullForNonNullable, NoData, <<>>))]_vars

\* The users query returned two users whose stored passwords differ.
C14_Witness ==
  /\ Done("r1", "find") /\ Len(reqs["r1"].list) = 2
  /\ reqs["r1"].list[1].password # reqs["r1"].list[2].password
  /\ \A k \in 1..2 : reqs["r1"].list[k] \in store

\* C15: after update(id, patch) has succeeded with a password present in
\* patch, verifyUser with that user's email succeeds with the new password
\* and, the previous password being another one, fails with the previous
\* password.
VerifiesAfterUpdate(old, new, pp, after) ==
  /\ verifyUser(after, new.email, pp).ok
  /\ verifyUser(after, new.email, pp).user = new
  /\ old.password.text # pp => ~verifyUser(after, new.email, old.password.text).ok

C15_UpdatedPasswordVerifies ==
  [][\A r \in Reqs :
       /\ reqs'[r] # reqs[r] /\ reqs'[r].kind = "update"
       /\ reqs'[r].pc = "done" /\ reqs'[r].status = 200
       => /\ reqs[r].pc = "hashed" =>
               VerifiesAfterUpdate(FirstMatch(ById(reqs[r].id)), reqs'[r].user,
                                   reqs[r].hashed.text, store')
          /\ reqs[r].pc # "hashed" =>
               \A i \in Ids, pe \in PatchEmails, pp \in Passwords :
                 UpdateDirect(r, i, pe, pp) =>
                   VerifiesAfterUpdate(FirstMatch(ById(i)), reqs'[r].user, pp, store')]_vars

\* C16: AbstractRepository.create persists the document under a newly
\* generated identifier, different from the identifier of every document
\* already stored; an _id carried in the payload is not used; and in every
\* reachable state the stored identifiers are pairwise distinct.
C16_CreateUsesFreshId ==
  /\ [](\A d1, d2 \in store : d1._id = d2._id => d1 = d2)
  /\ [][\A r \in Reqs :
          /\ reqs'[r] # reqs[r] /\ reqs'[r].kind = "create"
          /\ reqs'[r].pc = "done" /\ reqs'[r].status = 200
          => LET d == reqs'[r].user IN
             /\ \A o \in store : o._id # d._id
             /\ d._id = nextId /\ nextId' > nextId
             /\ store' = store \cup {d}
             /\ d \in store' /\ Cardinality(store') = Cardinality(store) + 1]_vars

\* A document whose payload carried the _id of a stored document was
\* persisted under another identifier, next to that document.
C16_Witness ==
  /\ Done("r1", "create") /\ reqs["r1"].status = 200
  /\ reqs["r1"].id # 0 /\ reqs["r1"].user._id # reqs["r1"].id
  /\ reqs["r1"].user \in store
  /\ \E o \in store : o._id = reqs["r1"].id

\* The outcome of a patch that was applied to the document with identifier i:
\* pw is the password the patch carries (NoPw: none).
PatchApplied(r, i, pe, pw) ==
  LET old == FirstMatch(ById(i))
      new == [_id |-> old._id,
              email |-> IF pe = Absent THEN old.email ELSE pe,
              password |-> IF pw = NoPw THEN old.password ELSE pw]
  IN /\ reqs'[r].status = 200
     /\ reqs'[r].user = new
     /\ new \in store'
     /\ store' \ {new} = store \ {old, new}
     /\ \A o \in store \ {old} : o \in store'

\* The outcome of a patch the store refused for its email index.
PatchRefused(r) ==
  /\ reqs'[r].err = DuplicateKeyError
  /\ store' = store

\* Every step that completes findOneAndUpdate on a matching document ends as
\* Outcome(r, i, pe, pw) says.
UpdateStepsEnd(Outcome(_, _, _, _)) ==
  \A r \in Reqs :
    reqs'[r] # reqs[r] /\ reqs'[r].kind = "update" /\ reqs'[r].pc = "done" =>
      /\ reqs[r].pc = "hashed" /\ ById(reqs[r].id) # {} =>
           Outcome(r, reqs[r].id, reqs[r].email, reqs[r].hashed)
      /\ reqs[r].pc # "hashed" =>
           \A i \in Ids, pe \in PatchEmails, pp \in PatchPasswords :
             UpdateDirect(r, i, pe, pp) /\ ById(i) # {} =>
               Outcome(r, i, pe, IF pp = Absent THEN NoPw ELSE Plain(pp))

AppliedOrRefused(r, i, pe, pw) == PatchApplied(r, i, pe, pw) \/ PatchRefused(r)

\* C17 (as stated): findOneAndUpdate(filter, patch) with a matching document
\* changes only the patched fields of the first matching document, leaves
\* every other document unchanged, and returns that document as it is after
\* the update.
C17_UpdateAlwaysApplies == [][UpdateStepsEnd(PatchApplied)]_vars

\* C17 (amended): findOneAndUpdate(filter, patch) with a matching document
\* either is refused by the store because the patched email belongs to another
\* document, and then fails and changes nothing, or changes only the patched
\* fields of the matching document, leaves every other document unchanged, and
\* returns the document as it is after the update.
C17_UpdateChangesPatchedFieldsOnly == [][UpdateStepsEnd(AppliedOrRefused)]_vars

\* A created user was later given another password, its email and the other
\* stored user left as they were.
C17_Witness ==
  /\ Done("r1", "update") /\ reqs["r1"].status = 200 /\ reqs["r1"].user \in store
  /\ Done("r2", "create") /\ reqs["r2"].status = 200 /\ reqs["r2"].user \in store
  /\ reqs["r1"].user._id # reqs["r2"].user._id
  /\ reqs["r1"].user.password.hashed
  /\ reqs["r1"].user.password # reqs["r2"].user.password

\* C18: find(filter) never fails on an empty result: it returns exactly the
\* stored documents that match the filter, each once, which is the empty list
\* when none matches, and with the empty filter it returns every stored user.
Listed(list) == {list[k] : k \in 1..Len(list)}

C18_FindReturnsExactlyTheMatches ==
  [][\A r \in Reqs :
       reqs'[r] # reqs[r] /\ reqs'[r].kind = "find" =>
         LET filter == [email |-> reqs'[r].email]
             list == reqs'[r].list
         IN /\ reqs'[r].pc = "done"
            /\ reqs'[r].err = NoErr
            /\ reqs'[r].status = 200
            /\ Listed(list) = Matching(filter)
            /\ Len(list) = Cardinality(Matching(filter))
            /\ Matching(filter) = {} => list = <<>>
            /\ filter = EmptyFilter => Listed(list) = store]_vars

\* find on an email no stored user has answered with the empty list, while
\* the other request's created user is stored.
C18_Witness ==
  /\ Done("r1", "find") /\ reqs["r1"].email # Absent
  /\ reqs["r1"].list = <<>> /\ reqs["r1"].status = 200 /\ reqs["r1"].err = NoErr
  /\ Done("r2", "create") /\ reqs["r2"].user \in store
  /\ Matching([email |-> reqs["r1"].email]) = {}

\* C19: the principal a handler sees through CurrentUser is the user the
\* guard attached, read from the very request object the guard authenticated,
\* in an http context and in a schema-query context alike; over either
\* transport the same token resolves to the same principal.
SeenOver(via, principal) ==
  LET context == ExecutionContext(via) IN
  getCurrentUserByContext(context, Attach(GuardGetRequest(context), principal))

Required == {"MONGODB_URI", "JWT_SECRET", "JWT_EXPIRATION", "PORT"}
Served == \E r \in Reqs : reqs[r] # Idle

C21_TokenNotRevoked ==
  [][\A r \in Reqs :
       /\ Done(r, "login") /\ reqs[r].cookie # NoCookie
       /\ reqs'[r].kind = "fetch"
       /\ reqs'[r].sent = reqs[r].cookie.value
       /\ now < reqs[r].cookie.value.payload.exp
       => /\ reqs'[r].status = 200 /\ reqs'[r].ran
          /\ reqs'[r].principal._id = ToHexString(reqs[r].user._id)
          /\ reqs'[r].principal.email = reqs[r].user.email]_vars

\* A guarded handler ran for a principal whose user is no longer stored
\* under that id and email.
C21_Witness ==
  /\ Done("r1", "fetch") /\ reqs["r1"].ran /\ reqs["r1"].status = 200
  /\ reqs["r1"].principal # NoPayload
  /\ \A d \in store : \/ ToHexString(d._id) # reqs["r1"].principal._id
                      \/ d.email # reqs["r1"].principal.email

\* C22: a createUser or updateUser request that would give two users the
\* same email fails with the store's constraint-violation error, as the store
\* raised it (not a not-found, unauthorized or conflict error), and stores
\* nothing.
Others(e, i) == {d \in store : d.email = e /\ d._id # i}

Collides(r) ==
  \/ /\ reqs[r].kind = "create" /\ reqs[r].pc = "hashed" /\ reqs'[r].kind = "create"
     /\ ByEmail(reqs[r].email) # {}
  \/ /\ reqs[r].kind = "update" /\ reqs[r].pc = "hashed" /\ reqs'[r].kind = "update"
     /\ reqs[r].email # Absent
     /\ ById(reqs[r].id) # {} /\ Others(reqs[r].email, reqs[r].id) # {}
  \/ /\ reqs[r].pc # "hashed"
     /\ \E i \in Ids, pe \in Emails, pp \in PatchPasswords :
          UpdateDirect(r, i, pe, pp) /\ ById(i) # {} /\ Others(pe, i) # {}

C22_DuplicateEmailErrorUnchanged ==
  [][\A r \in Reqs :
       reqs'[r] # reqs[r] /\ reqs'[r].pc = "done" /\ Collides(r) =>
         /\ reqs'[r].err = DuplicateKeyError
         /\ reqs'[r].status = DuplicateKeyError.status
         /\ reqs'[r].user = NoDoc
         /\ store' = store]_vars

\* An update that set a user's email to another stored user's email has
\* failed with the store's error, both users stored as before.
C22_Witness ==
  /\ Done("r1", "update") /\ reqs["r1"].err = DuplicateKeyError
  /\ Cardinality(store) = 2

\* C23: findOneAndDelete(filter) with a matching document removes exactly one
\* document, the first match, returns that document as it was before the
\* deletion, and leaves every other stored document unchanged.
C23_DeleteRemovesOnlyTheMatch ==
  [][\A r \in Reqs, i \in Ids :
       reqs'[r].kind = "remove" /\ Remove(r, i) /\ ById(i) # {} =>
         /\ reqs'[r].user \in store
         /\ reqs'[r].user = FirstMatch(ById(i))
         /\ reqs'[r].err = NoErr
         /\ store' = store \ {reqs'[r].user}
         /\ Cardinality(store') = Cardinality(store) - 1
         /\ \A o \in store : o # reqs'[r].user => o \in store']_vars

\* One of two stored users was removed and returned; the other is stored.
C23_Witness ==
  /\ Done("r1", "remove") /\ reqs["r1"].user # NoDoc
  /\ reqs["r1"].user \notin store
  /\ Cardinality(store) = 1
  /\ \A d \in store : d._id # reqs["r1"].user._id

\* C24: every not-found failure raised by findOne or findOneAndUpdate is
\* preceded, within the same call, by a diagnostic warning record: a call
\* that ended with the not-found error has the warning in its log.
Warned(r) ==
  \E k \in 1..Len(reqs[r].log) : reqs[r].log[k] = DocumentNotFoundWarning

C24_NotFoundIsLoggedFirst ==
  \A r \in Reqs : reqs[r].err = NotFoundException => Warned(r)

\* A findOne and an update, each on an id no stored user has, both failed
\* with not-found.
C24_Witness ==
  /\ Done("r1", "findOne") /\ reqs["r1"].err = NotFoundException /\ Warned("r1")
  /\ Done("r2", "update") /\ reqs["r2"].err = NotFoundException /\ Warned("r2")

\* C25: update(id, patch) with no password in patch leaves the stored
\* password of that user as it was, so that verifyUser with the user's
\* current email and a password that verified before the update still
\* succeeds afterwards (and no other password starts to verify).
C25_UpdateWithoutPasswordKeepsHash ==
  [][\A r \in Reqs, i \in Ids, pe \in PatchEmails :
       /\ reqs'[r].kind = "update" /\ reqs'[r].status = 200
       /\ UpdateDirect(r, i, pe, Absent)
       => LET old == FirstMatch(ById(i))
              new == reqs'[r].user
          IN /\ new \in store' /\ new._id = old._id
             /\ new.password = old.password
             /\ \A p \in Passwords :
                  verifyUser(store', new.email, p).ok = verifyUser(store, old.email, p).ok
             /\ old.password.hashed =>
                  verifyUser(store', new.email, old.password.text).user = new]_vars

\* A user whose email an update changed is verified, under the new email,
\* with the password it was created with.
C25_Witness ==
  /\ Done("r2", "update") /\ reqs["r2"].status = 200 /\ reqs["r2"].user \in store
  /\ reqs["r2"].user = Doc(1, "b@x", hashPassword("pw1", "s1"))
  /\ Done("r1", "verify") /\ reqs["r1"].status = 200
  /\ reqs["r1"].user = reqs["r2"].user /\ reqs["r1"].password = "pw1"
  /\ Cardinality(store) = 1

\* C26: a request that fails (not-found, authentication rejected, storage
\* constraint violation) leaves the store as it was before the request, and
\* leaves every other request in flight, and what it will read, as it was:
\* the step at which a request fails, and every step of a request that has
\* not ended, changes nothing but the request's own record (a create that
\* fails has drawn an identifier).
FailsAt(r) == reqs'[r] # reqs[r] /\ reqs'[r].pc = "done" /\ reqs'[r].err # NoErr
Unended(r) == reqs'[r] # reqs[r] /\ reqs'[r].pc # "done"

C26_FailuresChangeNothing ==
  [][\A r \in Reqs :
       FailsAt(r) \/ Unended(r) =>
         /\ store' = store
         /\ \A q \in Reqs \ {r} : reqs'[q] = reqs[q]
         /\ now' = now /\ jwtExpiration' = jwtExpiration /\ boot' = boot
         /\ nextId' # nextId => reqs'[r].kind = "create"]_vars

\* An update refused for the email of another user and a login rejected for
\* its password have both ended, the two users stored.
C26_Witness ==
  /\ Done("r2", "update") /\ reqs["r2"].err = DuplicateKeyError
  /\ Done("r1", "login") /\ reqs["r1"].err = CredentialsInvalid
  /\ Cardinality(store) = 2

\* C27: LocalStrategy.validate lets no error but an unauthorized one escape:
\* a login whose verifyUser failed, with not-found, with a credential
\* mismatch or with a failure of the store, is answered 401 and sets no cookie.
C27_ValidateAnswersUnauthorized ==
  \A r \in Reqs :
    Done(r, "login") /\ reqs[r].err # NoErr =>
      /\ reqs[r].status = 401
      /\ reqs[r].cookie = NoCookie
      /\ reqs[r].user = NoDoc

\* A login that met a failure of the store was answered 401.
C27_Witness ==
  /\ Done("r1", "login") /\ reqs["r1"].err = StoreFailure /\ reqs["r1"].status = 401
  /\ store # {}

\* C28: under every interleaving of a login with concurrent updateUser and
\* removeUser requests, a token is issued only for a user whose stored hash
\* matched the submitted password at the moment verifyUser read the store in
\* that login, and the token's id and email are those read at that moment.
\* The login keeps what it read in user: it is a stored document with the
\* submitted email when it is read, it is not read again, the comparison is
\* made on it, and the token is signed over it.
Login(r) == reqs[r].kind = "login" /\ reqs'[r].kind = "login" /\ reqs'[r] # reqs[r]

C28_TokenForUserAsRead ==
  [][\A r \in Reqs :
       /\ reqs'[r].kind = "login" /\ reqs'[r].pc = "found" /\ reqs'[r] # reqs[r] =>
            /\ reqs'[r].user \in store
            /\ reqs'[r].user.email = reqs'[r].email
       /\ Login(r) /\ reqs[r].pc \in {"found", "verified"} =>
            /\ reqs'[r].email = reqs[r].email /\ reqs'[r].password = reqs[r].password
            /\ reqs'[r].user \in {reqs[r].user, NoDoc}
       /\ Login(r) /\ reqs'[r].pc = "verified" =>
            /\ reqs[r].pc = "found"
            /\ bcryptCompare(reqs[r].password, reqs[r].user.password)
       /\ reqs'[r].cookie # NoCookie /\ reqs'[r].cookie # reqs[r].cookie =>
            /\ Login(r) /\ reqs[r].pc = "verified"
            /\ reqs'[r].user = reqs[r].user
            /\ bcryptCompare(reqs[r].password, reqs[r].user.password)
            /\ reqs'[r].cookie.value.payload._id = ToHexString(reqs[r].user._id)
            /\ reqs'[r].cookie.value.payload.email = reqs[r].user.email]_vars

\* A token was issued for the user as the login read it, with the email it
\* had then, while an update has since given that user another email.
C28_Witness ==
  /\ Done("r1", "login") /\ reqs["r1"].cookie # NoCookie
  /\ Done("r2", "update") /\ reqs["r2"].status = 200 /\ reqs["r2"].user \in store
  /\ reqs["r2"].user._id = reqs["r1"].user._id
  /\ reqs["r2"].user.email # reqs["r1"].user.email
  /\ reqs["r1"].cookie.value.payload.email = reqs["r1"].user.email

\* C29: when updateUser changes a user's password from old to new while
\* verifyUser runs for that user, verifyUser succeeds only with old or new,
\* and the stored password is at every moment the hash of old or the hash of
\* new: while the update is between its hash and its write the store is as
\* it was, the write puts a hash of the new password in place of the old
\* document in one step, and verifyUser succeeds only when the document it
\* read holds a hash of the submitted password.
HashesOf(p) == {hashPassword(p, s) : s \in Salts}

C29_PasswordIsOldOrNewHash ==
  [][\A r \in Reqs :
       /\ reqs'[r] # reqs[r] /\ reqs'[r].kind = "update" /\ reqs'[r].pc = "hashed" =>
            store' = store
       /\ reqs'[r] # reqs[r] /\ reqs'[r].kind = "update" /\ reqs'[r].status = 200 =>
            /\ reqs[r].pc = "hashed" =>
                 /\ reqs'[r].user.password \in HashesOf(reqs[r].hashed.text)
                 /\ store' = (store \ ById(reqs[r].id)) \cup {reqs'[r].user}
            /\ reqs[r].pc # "hashed" =>
                 \A i \in Ids, pe \in PatchEmails, pp \in Passwords :
                   UpdateDirect(r, i, pe, pp) =>
                     /\ reqs'[r].user.password \in HashesOf(pp)
                     /\ store' = (store \ ById(i)) \cup {reqs'[r].user}
       /\ reqs[r].kind = "verify" /\ reqs[r].pc = "found" /\ reqs'[r].status = 200 =>
            /\ reqs[r].user.password \in HashesOf(reqs[r].password)
            /\ reqs'[r].user = reqs[r].user]_vars

\* What holds of a removed user whoever brings its email back: the remove
\* takes the user out of the store; an identifier that was given out and is
\* not stored is never stored again, and findOne for it fails with
\* not-found; a login that looks up an email no stored user has is rejected;
\* and createUser with an email no stored user has succeeds.
Finishes(q, k, e) ==
  /\ reqs'[q] # reqs[q] /\ reqs'[q].kind = k /\ reqs'[q].pc = "done"
  /\ reqs'[q].user \in store' /\ reqs'[q].user.email = e

RemovedIsGone ==
  /\ \A r \in Reqs, i \in Ids :
       Remove(r, i) /\ reqs'[r].user # NoDoc =>
         /\ {d \in store' : d._id = i} = {}
         /\ {d \in store' : d.email = reqs'[r].user.email} = {}
  /\ \A i \in Ids : ById(i) = {} /\ i < nextId => {d \in store' : d._id = i} = {}
  /\ \A d \in store : d._id < nextId
  /\ \A r \in Reqs, i \in Ids :
       FindOne(r, i) /\ ById(i) = {} => reqs'[r].err = NotFoundException
  /\ \A r \in Reqs :
       /\ reqs'[r] # reqs[r] /\ reqs'[r].kind = "login" /\ reqs[r].pc \notin {"found", "verified"}
       /\ ByEmail(reqs'[r].email) = {}
       => reqs'[r].pc = "done" /\ reqs'[r].status = 401 /\ reqs'[r].cookie = NoCookie
  /\ \A r \in Reqs :
       /\ reqs[r].kind = "create" /\ reqs[r].pc = "hashed" /\ reqs'[r].pc = "done"
       /\ ByEmail(reqs[r].email) = {}
       => reqs'[r].status = 200 /\ Finishes(r, "create", reqs[r].email)

\* While no stored user has the email of a removed user, a step after which
\* a login with that user's email and password is verified is the end of a request
\* of one of the kinds bringers that stored a user with that email.
LoginReturnsBy(bringers) ==
  \A r \in Reqs :
    /\ Done(r, "remove") /\ reqs[r].user # NoDoc
    /\ ByEmail(reqs[r].user.email) = {}
    /\ Supplied(reqs[r].user.email, reqs[r].user.password.text)
    /\ verifyUser(store', reqs[r].user.email, reqs[r].user.password.text).ok
    => \E q \in Reqs, k \in bringers : Finishes(q, k, reqs[r].user.email)

\* C30 (as stated): after removeUser(id) has removed a user, findOne for
\* that id fails with not-found and login with that user's email and
\* password is rejected, until a new user is created with that email; the
\* deleted user's email can be registered again by createUser.
C30_RemovedUntilCreatedAgain ==
  [][RemovedIsGone /\ LoginReturnsBy({"create"})]_vars

\* C30 (amended): after removeUser(id) has removed a user, findOne for that
\* id fails with not-found and login with that user's email and password is
\* rejected, until a user with that email is stored again, by a createUser
\* with that email or by an updateUser that gives that email to another
\* user; the deleted user's email can be registered again by createUser.
C30_RemovedUntilEmailStoredAgain ==
  [][RemovedIsGone /\ LoginReturnsBy({"create", "update"})]_vars

\* The email of a user that was removed has been registered again, under
\* another identifier.
C30_Witness ==
  /\ Done("r1", "remove") /\ reqs["r1"].user # NoDoc
  /\ Done("r2", "create") /\ reqs["r2"].status = 200 /\ reqs["r2"].user \in store
  /\ reqs["r2"].user.email = reqs["r1"].user.email
  /\ reqs["r2"].user._id > reqs["r1"].user._id
  /\ ById(reqs["r1"].user._id) = {}

====
